---- MODULE Spec2Model ----
(***************************************************************************)
(* await-to-tuple: the [ok, err, data] outcome tuple, the wrappers to,     *)
(* sync and cb, the error normalisation SafeError.from, and the            *)
(* combinators map, pipe and parse, as a state machine over a heap of      *)
(* JavaScript objects (identity = heap address) and a heap of tuples       *)
(* (identity = tuple address).                                             *)
(***************************************************************************)
EXTENDS Integers, Sequences, FiniteSets, TLC

VARIABLES
  heap,      \* the objects allocated so far; Ref(i) is the object heap[i]
  tuples,    \* the outcome tuples (arrays) allocated so far, by address
  mode,      \* which entry point the caller exercises in this run
  pipes,     \* the pipe() calls, one per caller in Pipes
  toCall,    \* the to() call
  syncCall,  \* the sync() call
  cbCall,    \* the cb() call
  parseCall, \* the parse() call
  mapCalls,  \* the map() calls made so far, in order
  orCall,    \* the or() call
  formatCall \* the format() call

vars == <<heap, tuples, mode, pipes, toCall, syncCall, cbCall, parseCall, mapCalls,
          orCall, formatCall>>

(***************************************************************************)
(* Bounds of the model.                                                    *)
(***************************************************************************)
MaxSteps == 2      \* a pipe() call has at most this many steps
MaxCbEvents == 2   \* the legacy callback is invoked at most this many times
MaxMaps == 1       \* map() is applied at most this many times in a run

(***************************************************************************)
(* JavaScript values.  A value is a record of one shape: k is the type     *)
(* tag, n the number (or the heap address of an object), s the text.       *)
(***************************************************************************)
Null == [k |-> "null", n |-> 0, s |-> ""]
Undef == [k |-> "undefined", n |-> 0, s |-> ""]
Num(i) == [k |-> "number", n |-> i, s |-> ""]
Str(t) == [k |-> "string", n |-> 0, s |-> t]
Bool(b) == [k |-> "boolean", n |-> (IF b THEN 1 ELSE 0), s |-> ""]
Ref(a) == [k |-> "object", n |-> a, s |-> ""]

IsRef(v) == v.k = "object"

\* A mutation of Truthy: only null and undefined count as no error.
TruthyUnlessNullish(v) == v.k \notin {"null", "undefined"}

\* ToBoolean: the falsy values are null, undefined, 0, "" and false.
Truthy(v) ==
  CASE v.k = "null" -> FALSE
    [] v.k = "undefined" -> FALSE
    [] v.k = "number" -> v.n # 0
    [] v.k = "string" -> v.s # ""
    [] v.k = "boolean" -> v.n = 1
    [] OTHER -> TRUE

(***************************************************************************)
(* Objects.  cls is the class of the object: "SafeError" (instanceof       *)
(* SafeError and Error), "Error" (instanceof Error only), "Object" (a      *)
(* plain object), "Hostile" (an object whose toString throws), "Custom"    *)
(* (what the caller's transformer builds: {type: 'custom', original}).     *)
(***************************************************************************)
Obj(cls, message, cause, code, original) ==
  [cls |-> cls, message |-> message, cause |-> cause, code |-> code,
   original |-> original]

\* new SafeError(message, options): cause and code are options?.cause and
\* options?.code, undefined when absent.
NewSafeError(message, cause, code) == Obj("SafeError", message, cause, code, Undef)

\* The objects the caller holds before any call is made.
ErrBoom == 1
SafeCoded == 2
PlainObj == 3
HostileObj == 4

InitHeap ==
  << Obj("Error", "boom", Undef, Undef, Undef),
     NewSafeError("denied", Undef, Str("E_DENIED")),
     Obj("Object", "", Undef, Undef, Undef),
     Obj("Hostile", "", Undef, Undef, Undef) >>

\* The values a wrapped operation may yield, throw or pass to a callback.
RawVals ==
  { Null, Undef, Num(0), Num(42), Str(""), Str("oops"), Bool(FALSE), Bool(TRUE),
    Ref(ErrBoom), Ref(SafeCoded), Ref(PlainObj), Ref(HostileObj) }

(***************************************************************************)
(* Completion records: what evaluating a piece of code gives, with the     *)
(* heap it leaves.  kind is "return" or "throw".                           *)
(***************************************************************************)
Return(h, v) == [kind |-> "return", val |-> v, heap |-> h]
Throw(h, v) == [kind |-> "throw", val |-> v, heap |-> h]

InstanceOfSafeError(h, v) == IsRef(v) /\ h[v.n].cls = "SafeError"
InstanceOfError(h, v) == IsRef(v) /\ h[v.n].cls \in {"SafeError", "Error"}

Digits == <<"0", "1", "2", "3", "4", "5", "6", "7", "8", "9">>

RECURSIVE NatToStr(_)
NatToStr(i) ==
  IF i < 10 THEN Digits[i + 1] ELSE NatToStr(i \div 10) \o Digits[(i % 10) + 1]

\* String(value): the text rendering; it throws for an object whose
\* toString throws.  An error renders as its name, followed by ": " and its
\* message unless the message is empty (Error.prototype.toString).
StringOf(h, v) ==
  CASE v.k = "null" -> Return(h, "null")
    [] v.k = "undefined" -> Return(h, "undefined")
    [] v.k = "number" ->
         Return(h, IF v.n < 0 THEN "-" \o NatToStr(-v.n) ELSE NatToStr(v.n))
    [] v.k = "string" -> Return(h, v.s)
    [] v.k = "boolean" -> Return(h, IF v.n = 1 THEN "true" ELSE "false")
    [] OTHER ->
         CASE h[v.n].cls = "Hostile" -> Throw(h, Str("toString failed"))
           [] h[v.n].cls \in {"SafeError", "Error"} ->
                Return(h, IF h[v.n].message = ""
                            THEN h[v.n].cls
                            ELSE h[v.n].cls \o ": " \o h[v.n].message)
           [] OTHER -> Return(h, "[object Object]")

\* A mutation of SafeErrorFrom: every input, a SafeError included, is wrapped
\* in a new SafeError.
SafeErrorFromAlwaysWraps(h, value) ==
  IF InstanceOfError(h, value)
    THEN Return(Append(h, NewSafeError(h[value.n].message, value, Undef)),
                Ref(Len(h) + 1))
    ELSE IF value.k = "string"
      THEN Return(Append(h, NewSafeError(value.s, Undef, Undef)), Ref(Len(h) + 1))
      ELSE LET r == StringOf(h, value)
               message == IF r.kind = "return" THEN r.val ELSE "Unknown error"
           IN Return(Append(h, NewSafeError(message, value, Undef)), Ref(Len(h) + 1))

\* SafeError.from(value): the default normalisation.  It returns the heap
\* with the new SafeError, if one is built, and the reference to the result.
SafeErrorFrom(h, value) ==
  IF InstanceOfSafeError(h, value)
    THEN Return(h, value)
    ELSE IF InstanceOfError(h, value)
      THEN Return(Append(h, NewSafeError(h[value.n].message, value, Undef)),
                  Ref(Len(h) + 1))
      ELSE IF value.k = "string"
        THEN Return(Append(h, NewSafeError(value.s, Undef, Undef)), Ref(Len(h) + 1))
        ELSE LET r == StringOf(h, value)
                 message == IF r.kind = "return" THEN r.val ELSE "Unknown error"
             IN Return(Append(h, NewSafeError(message, value, Undef)),
                       Ref(Len(h) + 1))

(***************************************************************************)
(* Error transformers (ErrorTransformer<E> = (err: unknown) => E): the     *)
(* caller's functions.  "none" stands for the parameter left out.          *)
(*   wrap     (err) => ({type: 'custom', original: err})                   *)
(*   ident    (err) => err                                                 *)
(*   toNull   (err) => null                                                *)
(*   rethrow  (err) => { throw err }                                       *)
(***************************************************************************)
Transformers == {"wrap", "ident", "toNull", "rethrow"}
TransformerArgs == Transformers \cup {"none"}

ApplyTransformer(t, h, err) ==
  CASE t = "wrap" ->
         Return(Append(h, Obj("Custom", "", Undef, Undef, err)), Ref(Len(h) + 1))
    [] t = "ident" -> Return(h, err)
    [] t = "toNull" -> Return(h, Null)
    [] OTHER -> Throw(h, err)

\* A mutation of Normalize: the transformer is given the normalised error.
NormalizeThenTransform(t, h, err) ==
  IF t # "none"
    THEN LET n == SafeErrorFrom(h, err) IN ApplyTransformer(t, n.heap, n.val)
    ELSE SafeErrorFrom(h, err)

\* errorTransformer ? errorTransformer(err) : SafeError.from(err)
Normalize(t, h, err) ==
  IF t # "none" THEN ApplyTransformer(t, h, err) ELSE SafeErrorFrom(h, err)

(***************************************************************************)
(* Outcome tuples.  A tuple is an array of three slots; arrays are objects *)
(* with an identity, so they live in the heap of tuples and a call's       *)
(* result names one by its address.                                        *)
(***************************************************************************)
\* A mutation of ErrorResult: the error is put in the data slot.
ErrorResultInDataSlot(error) == [ok |-> FALSE, err |-> Null, data |-> error]

SuccessResult(data) == [ok |-> TRUE, err |-> Null, data |-> data]
ErrorResult(error) == [ok |-> FALSE, err |-> error, data |-> Null]

\* Promises of the library: pending, resolved with the tuple at an address,
\* or rejected with a reason.
Pending == [state |-> "pending", tuple |-> 0, reason |-> Undef]
Resolved(a) == [state |-> "resolved", tuple |-> a, reason |-> Undef]
Rejected(v) == [state |-> "rejected", tuple |-> 0, reason |-> v]

(***************************************************************************)
(* What the body of a wrapper gives: it returns the tuple at an address or *)
(* throws a value, and leaves a heap and a heap of tuples.                 *)
(***************************************************************************)
Gives(h, tp, a) == [kind |-> "return", tuple |-> a, val |-> Undef, heap |-> h, tuples |-> tp]
Raises(h, tp, v) == [kind |-> "throw", tuple |-> 0, val |-> v, heap |-> h, tuples |-> tp]

\* An outcome of the wrapped operation: it yields a value or fails with one.
Yields(v) == [kind |-> "return", val |-> v]
Fails(v) == [kind |-> "throw", val |-> v]
NoOutcome == [kind |-> "none", val |-> Undef]
Outcomes == {Yields(v) : v \in RawVals} \cup {Fails(v) : v \in RawVals}

\* The catch block shared by to, sync and cb:
\*   const error = errorTransformer ? errorTransformer(err) : SafeError.from(err);
\*   return [false, error, null];
\* An exception of the transformer leaves the catch block.
CatchBlock(h, tp, t, err) ==
  LET n == Normalize(t, h, err)
  IN IF n.kind = "return"
       THEN Gives(n.heap, Append(tp, ErrorResult(n.val)), Len(tp) + 1)
       ELSE Raises(n.heap, tp, n.val)

\* A mutation of SyncBody: the value returned is copied, an object into a
\* new object.
SyncBodyCopies(h, tp, t, fn) ==
  IF fn.kind = "return"
    THEN IF IsRef(fn.val)
           THEN Gives(Append(h, h[fn.val.n]),
                      Append(tp, SuccessResult(Ref(Len(h) + 1))), Len(tp) + 1)
           ELSE Gives(h, Append(tp, SuccessResult(fn.val)), Len(tp) + 1)
    ELSE CatchBlock(h, tp, t, fn.val)

\* The body of sync(): try { const result = fn(); return [true, null, result]; }
\* catch (err) { ... }.  fn is the outcome of calling the caller's function.
SyncBody(h, tp, t, fn) ==
  IF fn.kind = "return"
    THEN Gives(h, Append(tp, SuccessResult(fn.val)), Len(tp) + 1)
    ELSE CatchBlock(h, tp, t, fn.val)

\* The body of to() from the continuation of `await promise` on:
\* try { const data = await promise; return [true, null, data]; } catch (err) { ... }.
\* settled is how the promise settled.
ToBody(h, tp, t, settled) ==
  IF settled.kind = "return"
    THEN Gives(h, Append(tp, SuccessResult(settled.val)), Len(tp) + 1)
    ELSE CatchBlock(h, tp, t, settled.val)

\* The promise an async function returns once its body has ended.
AsyncResult(g) == IF g.kind = "return" THEN Resolved(g.tuple) ELSE Rejected(g.val)

(***************************************************************************)
(* sync(fn, errorTransformer?): one synchronous call.                      *)
(***************************************************************************)
SyncIdle == [st |-> "idle", t |-> "none", fn |-> NoOutcome, tuple |-> 0, thrown |-> Undef]

Sync(fn, t) ==
  /\ mode = "sync"
  /\ syncCall.st = "idle"
  /\ LET g == SyncBody(heap, tuples, t, fn)
     IN /\ heap' = g.heap
        /\ tuples' = g.tuples
        /\ syncCall' = [st |-> IF g.kind = "return" THEN "returned" ELSE "threw",
                        t |-> t, fn |-> fn, tuple |-> g.tuple, thrown |-> g.val]
  /\ UNCHANGED <<mode, pipes, toCall, cbCall, parseCall, mapCalls, orCall, formatCall>>

(***************************************************************************)
(* to(promise, errorTransformer?): the call runs to `await promise`; the   *)
(* promise settles, now or later; the continuation then runs to the end.   *)
(***************************************************************************)
ToIdle == [st |-> "idle", t |-> "none", promise |-> NoOutcome, result |-> Pending]

\* The call of to(): promise is NoOutcome while the promise is pending.
ToCall(promise, t) ==
  /\ mode = "to"
  /\ toCall.st = "idle"
  /\ toCall' = [st |-> "awaiting", t |-> t, promise |-> promise, result |-> Pending]
  /\ UNCHANGED <<heap, tuples, mode, pipes, syncCall, cbCall, parseCall, mapCalls, orCall, formatCall>>

\* The awaited promise settles (the caller's operation ends).
ToPromiseSettles(outcome) ==
  /\ toCall.st = "awaiting"
  /\ toCall.promise = NoOutcome
  /\ toCall' = [toCall EXCEPT !.promise = outcome]
  /\ UNCHANGED <<heap, tuples, mode, pipes, syncCall, cbCall, parseCall, mapCalls, orCall, formatCall>>

\* The continuation of `await promise`, and the rest of the body.
ToResume ==
  /\ toCall.st = "awaiting"
  /\ toCall.promise # NoOutcome
  /\ LET g == ToBody(heap, tuples, toCall.t, toCall.promise)
     IN /\ heap' = g.heap
        /\ tuples' = g.tuples
        /\ toCall' = [toCall EXCEPT !.st = "done", !.result = AsyncResult(g)]
  /\ UNCHANGED <<mode, pipes, syncCall, cbCall, parseCall, mapCalls, orCall, formatCall>>

(***************************************************************************)
(* cb(fn, errorTransformer?): new Promise((resolve) => { try { fn(callback)*)
(* } catch (err) { ... } }).  The caller's fn runs inside the executor     *)
(* ("running"); it may invoke the callback any number of times, then       *)
(* return or throw ("exited"); the callback may also be invoked later.     *)
(***************************************************************************)
NoEvent == [kind |-> "none", err |-> Undef, res |-> Undef, sync |-> FALSE, pend |-> FALSE]

CbIdle ==
  [st |-> "idle", t |-> "none", n |-> 0, last |-> NoEvent, result |-> Pending,
   leaked |-> FALSE]

\* The first arguments and the results the legacy operation passes.
CbErrs ==
  { Null, Undef, Num(0), Str(""), Bool(FALSE),
    Num(42), Str("oops"), Ref(ErrBoom), Ref(SafeCoded) }
CbResults == {Undef, Ref(PlainObj)}
CbThrown == {Num(42), Str("oops"), Ref(ErrBoom), Ref(SafeCoded)}

\* As Settle, but a later resolve or reject replaces the outcome.
SettleAgain(promise, to) == to

\* A promise settles once: resolve and reject do nothing to a settled promise.
Settle(promise, to) == IF promise.state = "pending" THEN to ELSE promise

\* The callback handed to fn:
\*   (err, result) => { if (err) { ...; resolve([false, error, null]); }
\*                      else { resolve([true, null, result as T]); } }
CallbackBody(h, tp, t, err, res) ==
  IF Truthy(err)
    THEN CatchBlock(h, tp, t, err)
    ELSE Gives(h, Append(tp, SuccessResult(res)), Len(tp) + 1)

\* The executor's catch block, entered when fn throws err: the tuple is
\* resolved; an exception of the transformer leaves the executor, and the
\* Promise constructor rejects the promise with it.
ExecutorCatch(h, tp, t, err, promise) ==
  LET g == CatchBlock(h, tp, t, err)
  IN [heap |-> g.heap, tuples |-> g.tuples,
      result |-> Settle(promise, IF g.kind = "return" THEN Resolved(g.tuple)
                                                      ELSE Rejected(g.val))]

CbCall(t) ==
  /\ mode = "cb"
  /\ cbCall.st = "idle"
  /\ cbCall' = [cbCall EXCEPT !.st = "running", !.t = t]
  /\ UNCHANGED <<heap, tuples, mode, pipes, toCall, syncCall, parseCall, mapCalls,
                 orCall, formatCall>>

\* The legacy operation invokes the callback: from inside fn, or later.  An
\* exception of the callback reaches its invoker: inside fn, fn catches it
\* (caught) or lets it through to the executor's catch block; later, it is
\* the invoker's (leaked).
CbCallback(err, res, caught) ==
  /\ cbCall.st \in {"running", "exited"}
  /\ cbCall.n < MaxCbEvents
  /\ LET g == CallbackBody(heap, tuples, cbCall.t, err, res)
         ev == [kind |-> "callback", err |-> err, res |-> res,
                sync |-> (cbCall.st = "running"),
                pend |-> (cbCall.result.state = "pending")]
         c == [cbCall EXCEPT !.n = @ + 1, !.last = ev]
     IN IF g.kind = "return"
          THEN /\ heap' = g.heap
               /\ tuples' = g.tuples
               /\ cbCall' = [c EXCEPT !.result = Settle(@, Resolved(g.tuple))]
          ELSE IF cbCall.st = "exited"
            THEN /\ heap' = g.heap
                 /\ tuples' = g.tuples
                 /\ cbCall' = [c EXCEPT !.leaked = TRUE]
            ELSE IF caught
              THEN /\ heap' = g.heap
                   /\ tuples' = g.tuples
                   /\ cbCall' = c
              ELSE LET x == ExecutorCatch(g.heap, g.tuples, cbCall.t, g.val,
                                          cbCall.result)
                   IN /\ heap' = x.heap
                      /\ tuples' = x.tuples
                      /\ cbCall' = [c EXCEPT !.st = "exited", !.result = x.result]
  /\ UNCHANGED <<mode, pipes, toCall, syncCall, parseCall, mapCalls, orCall, formatCall>>

\* fn throws err of its own.
CbThrow(err) ==
  /\ cbCall.st = "running"
  /\ LET x == ExecutorCatch(heap, tuples, cbCall.t, err, cbCall.result)
     IN /\ heap' = x.heap
        /\ tuples' = x.tuples
        /\ cbCall' = [cbCall EXCEPT
                        !.st = "exited",
                        !.last = [kind |-> "throw", err |-> err, res |-> Undef,
                                  sync |-> TRUE,
                                  pend |-> (cbCall.result.state = "pending")],
                        !.result = x.result]
  /\ UNCHANGED <<mode, pipes, toCall, syncCall, parseCall, mapCalls, orCall, formatCall>>

\* fn returns.
CbReturn ==
  /\ cbCall.st = "running"
  /\ cbCall' = [cbCall EXCEPT !.st = "exited"]
  /\ UNCHANGED <<heap, tuples, mode, pipes, toCall, syncCall, parseCall, mapCalls,
                 orCall, formatCall>>

(***************************************************************************)
(* pipe(initial, ...fns).  The caller's steps:                             *)
(*   inc         async (v) => v + 1                                        *)
(*   dbl         async (v) => v * 2                                        *)
(*   throwErr    (v) => { throw new Error("Error at index " + i) }         *)
(*   rejectSafe  (v) => Promise.reject(<the SafeError the caller holds>)   *)
(* A call of a step throws, or returns a promise that settles later with   *)
(* the outcome `will`.                                                     *)
(***************************************************************************)
Pipes == {"p", "q"}
StepKinds == {"inc", "dbl", "throwErr", "rejectSafe"}
PipeInitial == Num(1)

RECURSIVE SeqsUpTo(_, _)
SeqsUpTo(S, n) ==
  IF n = 0 THEN {<<>>}
  ELSE LET shorter == SeqsUpTo(S, n - 1)
       IN shorter \cup {Append(q, x) : q \in {r \in shorter : Len(r) = n - 1}, x \in S}

StepLists == SeqsUpTo(StepKinds, MaxSteps)

StepCall(kind, i, h, v) ==
  CASE kind = "inc" -> [kind |-> "promise", will |-> Yields(Num(v.n + 1)), val |-> Undef, heap |-> h]
    [] kind = "dbl" -> [kind |-> "promise", will |-> Yields(Num(v.n * 2)), val |-> Undef, heap |-> h]
    [] kind = "throwErr" ->
         [kind |-> "throw", will |-> NoOutcome, val |-> Ref(Len(h) + 1),
          heap |-> Append(h, Obj("Error", "Error at index " \o NatToStr(i), Undef, Undef, Undef))]
    [] OTHER -> [kind |-> "promise", will |-> Fails(Ref(SafeCoded)), val |-> Undef, heap |-> h]

\* What the steps compute when none fails: the reference for the final value.
StepValue(kind, v) ==
  CASE kind = "inc" -> Num(v.n + 1)
    [] kind = "dbl" -> Num(v.n * 2)
    [] OTHER -> v

PipeIdle ==
  [st |-> "idle", fns |-> <<>>, initial |-> Undef, current |-> Undef, i |-> 0,
   step |-> "none", will |-> NoOutcome, calls |-> <<>>, inflight |-> {},
   result |-> Pending]

\* A mutation of PipeCatch: the catch block does not return, and the loop
\* goes on to the next step with the value it had.
PipeCatchGoesOn(h, tp, rec, err) ==
  [heap |-> h, tuples |-> tp,
   rec |-> [rec EXCEPT !.st = "awaiting", !.step = "settled",
                       !.will = Yields(rec.current)]]

\* catch (err) { const error = SafeError.from(err) as E; return [false, error, null]; }
PipeCatch(h, tp, rec, err) ==
  LET n == SafeErrorFrom(h, err)
  IN [heap |-> n.heap,
      tuples |-> Append(tp, ErrorResult(n.val)),
      rec |-> [rec EXCEPT !.st = "done", !.step = "none", !.will = NoOutcome,
                          !.result = Resolved(Len(tp) + 1)]]

\* A mutation of PipeReturn: the value returned is the initial one.
PipeReturnsInitial(h, tp, rec) ==
  [heap |-> h,
   tuples |-> Append(tp, SuccessResult(rec.initial)),
   rec |-> [rec EXCEPT !.st = "done", !.step = "none", !.will = NoOutcome,
                       !.result = Resolved(Len(tp) + 1)]]

\* return [true, null, current as T];
PipeReturn(h, tp, rec) ==
  [heap |-> h,
   tuples |-> Append(tp, SuccessResult(rec.current)),
   rec |-> [rec EXCEPT !.st = "done", !.step = "none", !.will = NoOutcome,
                       !.result = Resolved(Len(tp) + 1)]]

\* The loop from its test at index rec.i (0-based) up to the next await or
\* return: for (const fn of fns) { try { current = await fn(current); } ... }
PipeLoop(h, tp, rec) ==
  IF rec.i = Len(rec.fns)
    THEN PipeReturn(h, tp, rec)
    ELSE LET c == StepCall(rec.fns[rec.i + 1], rec.i, h, rec.current)
             called == [rec EXCEPT !.calls = Append(@, rec.i)]
         IN IF c.kind = "throw"
              THEN PipeCatch(c.heap, tp, called, c.val)
              ELSE [heap |-> c.heap,
                    tuples |-> tp,
                    rec |-> [called EXCEPT !.st = "awaiting", !.step = "pending",
                                           !.will = c.will,
                                           !.inflight = @ \cup {rec.i}]]

\* A mutation of Awaited: the continuation does not wait for the promise.
AwaitedAtOnce(rec) == rec.step \in {"pending", "settled"}

\* await: the continuation runs once the awaited promise has settled.
Awaited(rec) == rec.step = "settled"

\* The call pipe(initial, ...fns): let current = initial, then the loop.
PipeCall(p, fns, initial) ==
  /\ mode = "pipe"
  /\ pipes[p].st = "idle"
  /\ LET x == PipeLoop(heap, tuples,
                       [PipeIdle EXCEPT !.fns = fns, !.initial = initial,
                                        !.current = initial])
     IN /\ heap' = x.heap
        /\ tuples' = x.tuples
        /\ pipes' = [pipes EXCEPT ![p] = x.rec]
  /\ UNCHANGED <<mode, toCall, syncCall, cbCall, parseCall, mapCalls, orCall, formatCall>>

\* The promise the step in flight returned settles.
StepSettles(p) ==
  /\ pipes[p].st = "awaiting"
  /\ pipes[p].step = "pending"
  /\ pipes' = [pipes EXCEPT ![p].step = "settled",
                            ![p].inflight = @ \ {pipes[p].i}]
  /\ UNCHANGED <<heap, tuples, mode, toCall, syncCall, cbCall, parseCall, mapCalls, orCall, formatCall>>

\* The continuation of the await: the value is assigned and the loop goes
\* on, or the rejection enters the catch block.
PipeResume(p) ==
  /\ pipes[p].st = "awaiting"
  /\ Awaited(pipes[p])
  /\ LET rec == pipes[p]
         x == IF rec.will.kind = "return"
                THEN PipeLoop(heap, tuples,
                              [rec EXCEPT !.current = rec.will.val, !.i = @ + 1,
                                          !.step = "none", !.will = NoOutcome])
                ELSE PipeCatch(heap, tuples, rec, rec.will.val)
     IN /\ heap' = x.heap
        /\ tuples' = x.tuples
        /\ pipes' = [pipes EXCEPT ![p] = x.rec]
  /\ UNCHANGED <<mode, toCall, syncCall, cbCall, parseCall, mapCalls, orCall, formatCall>>

(***************************************************************************)
(* map(result, fn).  The caller's functions fn:                            *)
(*   ident     (x) => x                                                    *)
(*   isNull    (x) => x === null                                           *)
(*   typeName  (x) => typeof x                                             *)
(***************************************************************************)
MapFns == {"ident", "isNull", "typeName"}

ApplyMapFn(fn, v) ==
  CASE fn = "ident" -> v
    [] fn = "isNull" -> Bool(v.k = "null")
    [] OTHER -> Str(IF v.k = "null" THEN "object" ELSE v.k)

\* A mutation of MapBody: fn is applied to the error of a failure as well.
MapBodyMapsBoth(tp, a, fn) ==
  IF tp[a].ok
    THEN [tuples |-> Append(tp, SuccessResult(ApplyMapFn(fn, tp[a].data))),
          result |-> Len(tp) + 1, fnArgs |-> <<tp[a].data>>]
    ELSE [tuples |-> Append(tp, ErrorResult(ApplyMapFn(fn, tp[a].err))),
          result |-> Len(tp) + 1, fnArgs |-> <<tp[a].err>>]

\* const [ok, err, data] = result;
\* if (ok) { return [true, null, fn(data)]; }  return [false, err, null];
\* It gives the heap of tuples with the array it builds, the address of its
\* result, and the arguments fn was invoked with.
MapBody(tp, a, fn) ==
  IF tp[a].ok
    THEN [tuples |-> Append(tp, SuccessResult(ApplyMapFn(fn, tp[a].data))),
          result |-> Len(tp) + 1, fnArgs |-> <<tp[a].data>>]
    ELSE [tuples |-> Append(tp, ErrorResult(tp[a].err)),
          result |-> Len(tp) + 1, fnArgs |-> <<>>]

\* map applied to a tuple a wrapper returned (or to one map returned).
Map(a, fn) ==
  /\ mode = "sync"
  /\ syncCall.st # "idle"
  /\ Len(mapCalls) < MaxMaps
  /\ a \in 1..Len(tuples)
  /\ LET m == MapBody(tuples, a, fn)
     IN /\ tuples' = m.tuples
        /\ mapCalls' = Append(mapCalls,
                              [arg |-> a, before |-> tuples[a], fn |-> fn,
                               fnArgs |-> m.fnArgs, result |-> m.result])
  /\ UNCHANGED <<heap, mode, pipes, toCall, syncCall, cbCall, parseCall, orCall, formatCall>>

(***************************************************************************)
(* or(result, defaultValue): the payload of a success, the default of a    *)
(* failure.  It reads the tuple and writes nothing.                        *)
(***************************************************************************)
\* As OrBody, but falling back to the default for a null or undefined payload.
OrBodyNullish(tp, a, defaultValue) ==
  IF tp[a].ok /\ tp[a].data.k \notin {"null", "undefined"}
    THEN tp[a].data
    ELSE defaultValue

OrBody(tp, a, defaultValue) ==
  IF tp[a].ok THEN tp[a].data ELSE defaultValue

OrIdle == [st |-> "idle", arg |-> 0, before |-> SuccessResult(Undef),
           tuplesBefore |-> <<>>, defaultValue |-> Undef, result |-> Undef]

Or(a, defaultValue) ==
  /\ mode = "sync"
  /\ syncCall.st # "idle"
  /\ orCall.st = "idle"
  /\ a \in 1..Len(tuples)
  /\ orCall' = [st |-> "returned", arg |-> a, before |-> tuples[a],
                tuplesBefore |-> tuples, defaultValue |-> defaultValue,
                result |-> OrBody(tuples, a, defaultValue)]
  /\ UNCHANGED <<heap, tuples, mode, pipes, toCall, syncCall, cbCall, parseCall,
                 mapCalls, formatCall>>


(***************************************************************************)
(* parse(str).  Texts are strings; JSON.parse is modelled for the JSON     *)
(* texts null, true, false, integers, strings (with the two-character      *)
(* escapes) and {"foo":"bar"}, with white space around them, which it      *)
(* decodes, and for texts that are no JSON, for which it throws a          *)
(* SyntaxError.  Fractions, exponents, \b and \u escapes, arrays and other  *)
(* objects are not among the texts the model feeds it.                     *)
(***************************************************************************)
StartsWith(str, prefix) ==
  Len(str) >= Len(prefix) /\ SubSeq(str, 1, Len(prefix)) = prefix

\* str.slice(n)
Slice(str, n) == SubSeq(str, n + 1, Len(str))

CharAt(str, i) == SubSeq(str, i, i)

DigitChars == {Digits[i] : i \in 1..10}

AllDigits(str) == Len(str) > 0 /\ \A i \in 1..Len(str) : CharAt(str, i) \in DigitChars

DigitValue(c) == CHOOSE d \in 0..9 : Digits[d + 1] = c

RECURSIVE StrToNat(_)
StrToNat(str) ==
  IF Len(str) = 0 THEN 0
  ELSE 10 * StrToNat(SubSeq(str, 1, Len(str) - 1)) + DigitValue(CharAt(str, Len(str)))

\* A JSON integer: digits with no leading zero, or 0.
IsJsonNat(str) == AllDigits(str) /\ (Len(str) = 1 \/ CharAt(str, 1) # "0")

\* The character a two-character escape of a JSON string stands for.
JsonEscapeLetters == {"\"", "\\", "/", "n", "t", "r", "f"}

UnescapeChar(e) ==
  CASE e = "n" -> "\n"
    [] e = "t" -> "\t"
    [] e = "r" -> "\r"
    [] e = "f" -> "\f"
    [] OTHER -> e

\* The characters that may not stand unescaped inside a JSON string.
JsonMustEscape == {"\"", "\\", "\n", "\t", "\r", "\f"}

\* The text between the quotes of a JSON string, decoded: ok is FALSE when
\* the text holds a bare quote or control character or a broken escape.
RECURSIVE JsonUnescape(_)
JsonUnescape(body) ==
  IF Len(body) = 0 THEN [ok |-> TRUE, s |-> ""]
  ELSE IF CharAt(body, 1) = "\\"
    THEN IF Len(body) >= 2 /\ CharAt(body, 2) \in JsonEscapeLetters
           THEN LET rest == JsonUnescape(Slice(body, 2))
                IN [ok |-> rest.ok, s |-> UnescapeChar(CharAt(body, 2)) \o rest.s]
           ELSE [ok |-> FALSE, s |-> ""]
    ELSE IF CharAt(body, 1) \in JsonMustEscape
      THEN [ok |-> FALSE, s |-> ""]
      ELSE LET rest == JsonUnescape(Slice(body, 1))
           IN [ok |-> rest.ok, s |-> CharAt(body, 1) \o rest.s]

\* A JSON string: quotes around a text that decodes.
IsJsonString(str) ==
  /\ Len(str) >= 2
  /\ CharAt(str, 1) = "\"" /\ CharAt(str, Len(str)) = "\""
  /\ JsonUnescape(SubSeq(str, 2, Len(str) - 1)).ok

\* JSON text may have white space around the value.
JsonSpace == {" ", "\t", "\n", "\r"}

RECURSIVE TrimJsonSpace(_)
TrimJsonSpace(text) ==
  IF Len(text) > 0 /\ CharAt(text, 1) \in JsonSpace
    THEN TrimJsonSpace(Slice(text, 1))
    ELSE IF Len(text) > 0 /\ CharAt(text, Len(text)) \in JsonSpace
      THEN TrimJsonSpace(SubSeq(text, 1, Len(text) - 1))
      ELSE text

JsonParse(h, text) ==
  LET json == TrimJsonSpace(text)
  IN CASE json = "null" -> Return(h, Null)
       [] json = "true" -> Return(h, Bool(TRUE))
       [] json = "false" -> Return(h, Bool(FALSE))
       [] IsJsonNat(json) -> Return(h, Num(StrToNat(json)))
       [] Len(json) > 1 /\ CharAt(json, 1) = "-" /\ IsJsonNat(Slice(json, 1)) ->
            Return(h, Num(0 - StrToNat(Slice(json, 1))))
       [] IsJsonString(json) ->
            Return(h, Str(JsonUnescape(SubSeq(json, 2, Len(json) - 1)).s))
       [] json = "{\"foo\":\"bar\"}" ->
            Return(Append(h, Obj("Object", "", Undef, Undef, Undef)), Ref(Len(h) + 1))
       [] OTHER ->
            Throw(Append(h, Obj("Error", "SyntaxError: not valid JSON", Undef, Undef,
                                Undef)),
                  Ref(Len(h) + 1))

OkPrefix == "[OK] data: "
ErrPrefix == "[ERR] error: "

\* As ParseBody, but a text it cannot read gives a failure tuple instead of
\* an exception.
ParseBodyLenient(h, tp, str) ==
  IF StartsWith(str, "[ERR] error: ")
    THEN Gives(Append(h, NewSafeError(Slice(str, Len("[ERR] error: ")), Undef, Undef)),
               Append(tp, ErrorResult(Ref(Len(h) + 1))), Len(tp) + 1)
    ELSE LET d == IF StartsWith(str, "[OK] data: ")
                    THEN JsonParse(h, Slice(str, Len("[OK] data: ")))
                    ELSE Throw(h, Str("Invalid SafeResult format: " \o str))
         IN IF d.kind = "return"
              THEN Gives(d.heap, Append(tp, SuccessResult(d.val)), Len(tp) + 1)
              ELSE LET e == SafeErrorFrom(d.heap, d.val)
                   IN Gives(e.heap, Append(tp, ErrorResult(e.val)), Len(tp) + 1)

ParseBody(h, tp, str) ==
  IF StartsWith(str, OkPrefix)
    THEN LET d == JsonParse(h, Slice(str, Len(OkPrefix)))
         IN IF d.kind = "return"
              THEN Gives(d.heap, Append(tp, SuccessResult(d.val)), Len(tp) + 1)
              ELSE Raises(d.heap, tp, d.val)
    ELSE IF StartsWith(str, ErrPrefix)
      THEN Gives(Append(h, NewSafeError(Slice(str, Len(ErrPrefix)), Undef, Undef)),
                 Append(tp, ErrorResult(Ref(Len(h) + 1))), Len(tp) + 1)
      ELSE Raises(Append(h, Obj("Error", "Invalid SafeResult format: " \o str,
                                Undef, Undef, Undef)),
                  tp, Ref(Len(h) + 1))

\* The texts the caller hands to parse.
ParseInputs ==
  { "[OK] data: 42", "[OK] data: null", "[OK] data: true", "[OK] data: -7",
    "[OK] data: \"hi\"", "[OK] data: ", "[OK] data: undefined", "[OK] data: {bad",
    "[OK] data:42", "[OK] data:  42 ", "[ERR] error: boom", "[ERR] error: ", "[ERR] error: [OK] data: 1",
    "[ERR] error:", "garbage", "" }

ParseIdle == [st |-> "idle", str |-> "", tuple |-> 0, thrown |-> Undef]

Parse(str) ==
  /\ mode = "parse"
  /\ parseCall.st = "idle"
  /\ LET g == ParseBody(heap, tuples, str)
     IN /\ heap' = g.heap
        /\ tuples' = g.tuples
        /\ parseCall' = [st |-> IF g.kind = "return" THEN "returned" ELSE "threw",
                         str |-> str, tuple |-> g.tuple, thrown |-> g.val]
  /\ UNCHANGED <<mode, pipes, toCall, syncCall, cbCall, mapCalls, orCall, formatCall>>

(***************************************************************************)
(* format(result).  JSON.stringify is modelled for null, booleans,         *)
(* integers, strings, undefined (for which it gives undefined, which the   *)
(* template renders as the text undefined) and the plain object of the     *)
(* heap, { foo: 'bar' }.                                                   *)
(***************************************************************************)
EscapeChar(c) ==
  CASE c = "\"" -> "\\\""
    [] c = "\\" -> "\\\\"
    [] c = "\n" -> "\\n"
    [] c = "\t" -> "\\t"
    [] c = "\r" -> "\\r"
    [] c = "\f" -> "\\f"
    [] OTHER -> c

RECURSIVE JsonEscape(_)
JsonEscape(str) ==
  IF Len(str) = 0 THEN ""
  ELSE EscapeChar(CharAt(str, 1)) \o JsonEscape(Slice(str, 1))

\* As JsonStringify, but a string is quoted without escaping its characters.
JsonStringifyRaw(h, v) ==
  CASE v.k = "string" -> "\"" \o v.s \o "\""
    [] v.k = "object" /\ h[v.n].cls = "Object" -> "{\"foo\":\"bar\"}"
    [] v.k \in {"null", "undefined", "number", "boolean"} -> StringOf(h, v).val

\* `${JSON.stringify(data)}`
JsonStringify(h, v) ==
  CASE v.k = "string" -> "\"" \o JsonEscape(v.s) \o "\""
    [] v.k = "object" /\ h[v.n].cls = "Object" -> "{\"foo\":\"bar\"}"
    [] v.k \in {"null", "undefined", "number", "boolean"} -> StringOf(h, v).val

FormatOk == "[OK] data: "
FormatErr == "[ERR] error: "

FormatBody(h, result) ==
  IF result.ok
    THEN FormatOk \o JsonStringify(h, result.data)
    ELSE FormatErr \o h[result.err.n].message

\* The payloads and the error messages of the tuples the caller formats.
FormatPayloads ==
  { Null, Undef, Bool(TRUE), Bool(FALSE), Num(0), Num(42), Num(0 - 7), Str(""),
    Str("hi"), Str("say \"hi\""), Str("a\\b\nc\td"), Str("[ERR] error: x"),
    Ref(PlainObj) }

FormatMessages ==
  { "", "boom", " two  spaces ", "[OK] data: 1", "[ERR] error: again",
    "line one\nline two", "say \"hi\" \\ back" }

\* The errors the caller holds and puts in a tuple as they are.
FormatErrors == {Ref(SafeCoded)}

FormatIdle == [st |-> "idle", arg |-> 0, text |-> "", heapSize |-> 0]

\* The caller writes the tuple [true, null, data].
NewSuccess(data) ==
  /\ mode = "format"
  /\ formatCall.st = "idle"
  /\ tuples' = Append(tuples, SuccessResult(data))
  /\ formatCall' = [formatCall EXCEPT !.st = "built", !.arg = Len(tuples) + 1]
  /\ UNCHANGED <<heap, mode, pipes, toCall, syncCall, cbCall, parseCall, mapCalls,
                 orCall>>

\* The caller writes the tuple [false, new SafeError(message), null].
NewFailure(message) ==
  /\ mode = "format"
  /\ formatCall.st = "idle"
  /\ heap' = Append(heap, NewSafeError(message, Undef, Undef))
  /\ tuples' = Append(tuples, ErrorResult(Ref(Len(heap) + 1)))
  /\ formatCall' = [formatCall EXCEPT !.st = "built", !.arg = Len(tuples) + 1]
  /\ UNCHANGED <<mode, pipes, toCall, syncCall, cbCall, parseCall, mapCalls, orCall>>

\* The caller writes the tuple [false, error, null] with an error it holds.
NewFailureOf(error) ==
  /\ mode = "format"
  /\ formatCall.st = "idle"
  /\ tuples' = Append(tuples, ErrorResult(error))
  /\ formatCall' = [formatCall EXCEPT !.st = "built", !.arg = Len(tuples) + 1]
  /\ UNCHANGED <<heap, mode, pipes, toCall, syncCall, cbCall, parseCall, mapCalls,
                 orCall>>

Format ==
  /\ mode = "format"
  /\ formatCall.st = "built"
  /\ formatCall' = [formatCall EXCEPT !.st = "returned",
                                      !.text = FormatBody(heap, tuples[formatCall.arg]),
                                      !.heapSize = Len(heap)]
  /\ UNCHANGED <<heap, tuples, mode, pipes, toCall, syncCall, cbCall, parseCall,
                 mapCalls, orCall>>

\* parse(format(result))
ParseFormatted ==
  /\ mode = "format"
  /\ formatCall.st = "returned"
  /\ parseCall.st = "idle"
  /\ LET g == ParseBody(heap, tuples, formatCall.text)
     IN /\ heap' = g.heap
        /\ tuples' = g.tuples
        /\ parseCall' = [st |-> IF g.kind = "return" THEN "returned" ELSE "threw",
                         str |-> formatCall.text, tuple |-> g.tuple, thrown |-> g.val]
  /\ UNCHANGED <<mode, pipes, toCall, syncCall, cbCall, mapCalls, orCall, formatCall>>

(***************************************************************************)
(* The runs: the caller exercises one entry point, with any inputs.        *)
(***************************************************************************)
Modes == {"pipe", "to", "sync", "cb", "parse", "format"}

Init ==
  /\ heap = InitHeap
  /\ tuples = <<>>
  /\ mode \in Modes
  /\ pipes = [p \in Pipes |-> PipeIdle]
  /\ toCall = ToIdle
  /\ syncCall = SyncIdle
  /\ cbCall = CbIdle
  /\ parseCall = ParseIdle
  /\ mapCalls = <<>>
  /\ orCall = OrIdle
  /\ formatCall = FormatIdle

Next ==
  \/ \E fn \in Outcomes, t \in TransformerArgs : Sync(fn, t)
  \/ \E promise \in Outcomes \cup {NoOutcome}, t \in TransformerArgs : ToCall(promise, t)
  \/ \E outcome \in Outcomes : ToPromiseSettles(outcome)
  \/ ToResume
  \/ \E t \in TransformerArgs : CbCall(t)
  \/ \E err \in CbErrs, res \in CbResults, caught \in BOOLEAN : CbCallback(err, res, caught)
  \/ \E err \in CbThrown : CbThrow(err)
  \/ CbReturn
  \/ \E p \in Pipes, fns \in StepLists : PipeCall(p, fns, PipeInitial)
  \/ \E p \in Pipes : StepSettles(p)
  \/ \E p \in Pipes : PipeResume(p)
  \/ \E a \in 1..Len(tuples), fn \in MapFns : Map(a, fn)
  \/ \E a \in 1..Len(tuples), defaultValue \in RawVals : Or(a, defaultValue)
  \/ \E str \in ParseInputs : Parse(str)
  \/ \E data \in FormatPayloads : NewSuccess(data)
  \/ \E message \in FormatMessages : NewFailure(message)
  \/ \E error \in FormatErrors : NewFailureOf(error)
  \/ Format
  \/ ParseFormatted

Spec == Init /\ [][Next]_vars

(***************************************************************************)
(* Properties of pipe.                                                     *)
(***************************************************************************)
FailingKinds == {"throwErr", "rejectSafe"}

\* The 0-based indices of the steps of fns that fail.
FailingAt(fns) == {k \in 0..(Len(fns) - 1) : fns[k + 1] \in FailingKinds}

FirstFailing(fns) == CHOOSE k \in FailingAt(fns) : \A j \in FailingAt(fns) : k <= j

\* <<0, 1, ..., k>>
UpTo(k) == [j \in 1..(k + 1) |-> j - 1]

IsPrefix(a, b) == Len(a) <= Len(b) /\ \A j \in 1..Len(a) : a[j] = b[j]

\* The value of the steps applied in order, computed apart from the loop.
RECURSIVE Fed(_, _)
Fed(v, fns) == IF fns = <<>> THEN v ELSE Fed(StepValue(Head(fns), v), Tail(fns))

\* The error slot is what SafeError.from makes of the failure of step k.
IsFailureOfStep(e, kind, k) ==
  IF kind = "rejectSafe"
    THEN e = Ref(SafeCoded)
    ELSE /\ IsRef(e)
         /\ e.n > Len(InitHeap)
         /\ heap[e.n].cls = "SafeError"
         /\ heap[e.n].message = "Error at index " \o NatToStr(k)
         /\ heap[e.n].code = Undef
         /\ IsRef(heap[e.n].cause)
         /\ heap[heap[e.n].cause.n].cls = "Error"
         /\ heap[heap[e.n].cause.n].message = "Error at index " \o NatToStr(k)

\* C1: when step K is the first step of a pipe to fail, the steps invoked
\* are at all times a prefix of 0..K, each once and in index order, none
\* beyond K; the pipe never rejects; and once it has ended the steps invoked
\* are exactly 0..K and it has resolved to (false, SafeError.from(failure
\* of step K), null).
C1_ShortCircuit ==
  \A p \in Pipes :
    LET rec == pipes[p]
    IN FailingAt(rec.fns) # {} =>
         LET K == FirstFailing(rec.fns)
         IN /\ IsPrefix(rec.calls, UpTo(K))
            /\ rec.result.state # "rejected"
            /\ rec.st = "done" =>
                 /\ rec.calls = UpTo(K)
                 /\ rec.result.state = "resolved"
                 /\ rec.result.tuple \in 1..Len(tuples)
                 /\ LET r == tuples[rec.result.tuple]
                    IN /\ r.ok = FALSE
                       /\ r.data = Null
                       /\ IsFailureOfStep(r.err, rec.fns[K + 1], K)

\* One pipe failed at its first step of two, the other at its second step,
\* by a throw and by a rejection.
C1_Witness ==
  /\ pipes["p"].st = "done" /\ pipes["p"].fns = <<"throwErr", "inc">>
  /\ pipes["q"].st = "done" /\ pipes["q"].fns = <<"dbl", "rejectSafe">>

\* C2: in every pipe at most one step is in flight at any time, whatever
\* the other pipe does: a step is started only once the promise of the
\* step before it has settled.
C2_OneStepInFlight ==
  \A p \in Pipes :
    /\ Cardinality(pipes[p].inflight) <= 1
    /\ pipes[p].inflight # {} =>
         /\ pipes[p].st = "awaiting"
         /\ pipes[p].inflight = {pipes[p].i}
         /\ pipes[p].calls = UpTo(pipes[p].i)

\* Both pipes have a step in flight at once, one its first and the other
\* its second.
C2_Witness == pipes["p"].inflight = {1} /\ pipes["q"].inflight = {0}

\* C3: when no step of a pipe fails, the pipe never rejects, invokes its
\* steps in index order, each once, and ends resolved to (true, null, v)
\* where v is the initial value fed through all the steps in order.
C3_AllSucceed ==
  \A p \in Pipes :
    LET rec == pipes[p]
    IN (rec.st # "idle" /\ FailingAt(rec.fns) = {}) =>
         /\ rec.result.state # "rejected"
         /\ Len(rec.calls) > 0 => rec.calls = UpTo(Len(rec.calls) - 1)
         /\ rec.st = "done" =>
              /\ Len(rec.calls) = Len(rec.fns)
              /\ rec.result.state = "resolved"
              /\ rec.result.tuple \in 1..Len(tuples)
              /\ tuples[rec.result.tuple] =
                   [ok |-> TRUE, err |-> Null, data |-> Fed(rec.initial, rec.fns)]

\* A pipe of two steps, neither failing, has ended: (1 + 1) * 2 = 4; the
\* other pipe, of no step, has ended with the initial value.
C3_Witness ==
  /\ pipes["p"].st = "done" /\ pipes["p"].fns = <<"inc", "dbl">>
  /\ tuples[pipes["p"].result.tuple].data = Num(4)
  /\ pipes["q"].st = "done" /\ pipes["q"].fns = <<>>

(***************************************************************************)
(* Properties of the wrappers.                                             *)
(***************************************************************************)

\* C4: no exception or rejection escapes a wrapper: sync never throws, and
\* the promises of to and cb never reject, with or without a transformer.
C4_NoEscape ==
  /\ syncCall.st # "threw"
  /\ toCall.result.state # "rejected"
  /\ cbCall.result.state # "rejected"

\* C5, as claimed: in every tuple exactly one of the error and data slots is
\* null, and the flag is true iff the error slot is null iff the data slot
\* is not.
C5_ExactlyOneEmpty ==
  \A a \in 1..Len(tuples) :
    LET r == tuples[a]
    IN /\ (r.err = Null) # (r.data = Null)
       /\ r.ok <=> (r.err = Null)
       /\ (~r.ok) <=> (r.data = Null)

\* No call of the run was given a transformer.
DefaultNormalization == toCall.t = "none" /\ syncCall.t = "none" /\ cbCall.t = "none"

\* C5, amended: in every tuple a true flag comes with a null error slot and
\* a false flag with a null data slot; the payload may itself be null, so
\* both slots may be null; under default normalisation the error of a
\* false-flag tuple is a SafeError, and there the flag is true iff the
\* error slot is null.
C5_TupleShape ==
  \A a \in 1..Len(tuples) :
    LET r == tuples[a]
    IN /\ r.ok => r.err = Null
       /\ (~r.ok) => r.data = Null
       /\ DefaultNormalization =>
            /\ (~r.ok) => (IsRef(r.err) /\ heap[r.err.n].cls = "SafeError")
            /\ r.ok <=> (r.err = Null)

\* A wrapper returned the tuple of a success whose value is null, and map
\* built a tuple from it: (true, null, null).
C5_Witness ==
  /\ syncCall.st = "returned"
  /\ tuples[syncCall.tuple] = [ok |-> TRUE, err |-> Null, data |-> Null]
  /\ Len(mapCalls) = 1
  /\ tuples[mapCalls[1].result] = [ok |-> TRUE, err |-> Null, data |-> Null]

\* C6: to on a promise that fulfils with V, and sync on a function that
\* returns V, give (true, null, V) with V the very same value (the same
\* object, none allocated, none changed), with or without a transformer.
C6_SuccessIdentity ==
  /\ (syncCall.st # "idle" /\ syncCall.fn.kind = "return") =>
       /\ syncCall.st = "returned"
       /\ syncCall.tuple \in 1..Len(tuples)
       /\ tuples[syncCall.tuple] = [ok |-> TRUE, err |-> Null, data |-> syncCall.fn.val]
       /\ heap = InitHeap
  /\ (toCall.st = "done" /\ toCall.promise.kind = "return") =>
       /\ toCall.result.state = "resolved"
       /\ toCall.result.tuple \in 1..Len(tuples)
       /\ tuples[toCall.result.tuple] =
            [ok |-> TRUE, err |-> Null, data |-> toCall.promise.val]
       /\ heap = InitHeap

\* sync returned the object its function returned, with a transformer given.
C6_Witness ==
  /\ syncCall.st = "returned"
  /\ syncCall.fn = Yields(Ref(PlainObj))
  /\ syncCall.t = "wrap"
  /\ tuples[syncCall.tuple].data = Ref(PlainObj)

\* The text rendering of the values that are neither errors nor texts, as
\* the tests and the language give it; the placeholder where it fails.
Rendering(R) ==
  CASE R = Null -> "null"
    [] R = Undef -> "undefined"
    [] R = Num(0) -> "0"
    [] R = Num(42) -> "42"
    [] R = Bool(FALSE) -> "false"
    [] R = Bool(TRUE) -> "true"
    [] R = Ref(PlainObj) -> "[object Object]"
    [] R = Ref(HostileObj) -> "Unknown error"
    [] OTHER -> "?"

\* e is what the default rule makes of the raw failure R, an initial value.
DefaultNormalized(e, R) ==
  IF IsRef(R) /\ InitHeap[R.n].cls = "SafeError"
    THEN e = R
    ELSE /\ IsRef(e)
         /\ e.n \in (Len(InitHeap) + 1)..Len(heap)
         /\ heap[e.n].cls = "SafeError"
         /\ heap[e.n].code = Undef
         /\ IF IsRef(R) /\ InitHeap[R.n].cls = "Error"
              THEN heap[e.n].message = InitHeap[R.n].message /\ heap[e.n].cause = R
              ELSE IF R.k = "string"
                THEN heap[e.n].message = R.s /\ heap[e.n].cause = Undef
                ELSE heap[e.n].message = Rendering(R) /\ heap[e.n].cause = R

\* Normalising e again gives e itself and allocates nothing.
NormalizedAgain(e) == SafeErrorFrom(heap, e) = Return(heap, e)

\* C7: to and sync without a transformer, on an operation failing with R,
\* give (false, E, null) and never throw or reject, where E is R itself if
\* R is a SafeError, else a new SafeError with R's message and cause R if R
\* is an Error, with message R and no cause if R is a text, and otherwise
\* with the rendering of R (the placeholder if rendering fails) and cause
\* R; normalising E again returns E itself.
C7_FailureNormalization ==
  /\ (syncCall.st # "idle" /\ syncCall.fn.kind = "throw" /\ syncCall.t = "none") =>
       /\ syncCall.st = "returned"
       /\ syncCall.tuple \in 1..Len(tuples)
       /\ LET r == tuples[syncCall.tuple]
          IN /\ r.ok = FALSE /\ r.data = Null
             /\ DefaultNormalized(r.err, syncCall.fn.val)
             /\ NormalizedAgain(r.err)
             /\ SubSeq(heap, 1, Len(InitHeap)) = InitHeap
             /\ Len(heap) <= Len(InitHeap) + 1
  /\ (toCall.st = "done" /\ toCall.promise.kind = "throw" /\ toCall.t = "none") =>
       /\ toCall.result.state = "resolved"
       /\ toCall.result.tuple \in 1..Len(tuples)
       /\ LET r == tuples[toCall.result.tuple]
          IN /\ r.ok = FALSE /\ r.data = Null
             /\ DefaultNormalized(r.err, toCall.promise.val)
             /\ NormalizedAgain(r.err)
             /\ SubSeq(heap, 1, Len(InitHeap)) = InitHeap
             /\ Len(heap) <= Len(InitHeap) + 1

\* to resolved the rejection with the SafeError the caller holds: the error
\* slot is that very object.
C7_Witness ==
  /\ toCall.st = "done"
  /\ toCall.t = "none"
  /\ toCall.promise = Fails(Ref(SafeCoded))
  /\ tuples[toCall.result.tuple].err = Ref(SafeCoded)

\* The transformers that return a value for every failure.
Returning == {"wrap", "ident", "toNull"}

\* e is the value transformer t returns for the raw failure R.
TransformedBy(e, t, R) ==
  CASE t = "ident" -> e = R
    [] t = "toNull" -> e = Null
    [] OTHER -> /\ IsRef(e)
                /\ e.n \in (Len(InitHeap) + 1)..Len(heap)
                /\ heap[e.n].cls = "Custom"
                /\ heap[e.n].original = R

\* No SafeError has been built: default normalisation was not applied.
NoSafeErrorBuilt == \A a \in (Len(InitHeap) + 1)..Len(heap) : heap[a].cls # "SafeError"

\* C8: to, sync and cb called with a transformer T, on an operation failing
\* with R for which T returns a value, give (false, T(R), null): the error
\* slot is the value T returned for the raw R itself, and no default
\* normalisation is applied.
C8_TransformerOverride ==
  /\ (syncCall.st # "idle" /\ syncCall.fn.kind = "throw" /\ syncCall.t \in Returning) =>
       /\ syncCall.st = "returned"
       /\ syncCall.tuple \in 1..Len(tuples)
       /\ LET r == tuples[syncCall.tuple]
          IN /\ r.ok = FALSE /\ r.data = Null
             /\ TransformedBy(r.err, syncCall.t, syncCall.fn.val)
       /\ NoSafeErrorBuilt
  /\ (toCall.st = "done" /\ toCall.promise.kind = "throw" /\ toCall.t \in Returning) =>
       /\ toCall.result.state = "resolved"
       /\ toCall.result.tuple \in 1..Len(tuples)
       /\ LET r == tuples[toCall.result.tuple]
          IN /\ r.ok = FALSE /\ r.data = Null
             /\ TransformedBy(r.err, toCall.t, toCall.promise.val)
       /\ NoSafeErrorBuilt
  /\ (/\ cbCall.t \in Returning
      /\ cbCall.last.pend
      /\ \/ cbCall.last.kind = "throw"
         \/ /\ cbCall.last.kind = "callback"
            /\ cbCall.last.err \notin {Null, Undef, Num(0), Str(""), Bool(FALSE)}) =>
       /\ cbCall.result.state = "resolved"
       /\ cbCall.result.tuple \in 1..Len(tuples)
       /\ LET r == tuples[cbCall.result.tuple]
          IN /\ r.ok = FALSE /\ r.data = Null
             /\ TransformedBy(r.err, cbCall.t, cbCall.last.err)
       /\ NoSafeErrorBuilt

\* to resolved a rejection with the text "oops" under the transformer that
\* returns its argument: the error slot is the raw text, not a SafeError.
C8_Witness ==
  /\ toCall.st = "done"
  /\ toCall.t = "ident"
  /\ toCall.promise = Fails(Str("oops"))
  /\ tuples[toCall.result.tuple].err = Str("oops")

\* e is what the call's normalisation (the transformer, or the default
\* rule) makes of R.
NormalizedBy(e, t, R) ==
  IF t = "none" THEN DefaultNormalized(e, R) ELSE TransformedBy(e, t, R)

\* C9: the first settling event of cb fixes its promise: the callback
\* invoked with a falsy first argument (null, undefined, 0, "", false)
\* resolves it to (true, null, result); the callback invoked with a truthy
\* err resolves it to (false, normalize(err), null); fn throwing R before
\* any callback resolves it to (false, normalize(R), null); where
\* normalize gives a value.  The second argument plays no part in the
\* choice.
C9_CbOutcome ==
  LET ev == cbCall.last
      falsy == {Null, Undef, Num(0), Str(""), Bool(FALSE)}
  IN /\ (ev.kind = "callback" /\ ev.pend /\ ev.err \in falsy) =>
          /\ cbCall.result.state = "resolved"
          /\ cbCall.result.tuple \in 1..Len(tuples)
          /\ tuples[cbCall.result.tuple] = [ok |-> TRUE, err |-> Null, data |-> ev.res]
     /\ (ev.kind = "callback" /\ ev.pend /\ ev.err \notin falsy /\ cbCall.t # "rethrow") =>
          /\ cbCall.result.state = "resolved"
          /\ cbCall.result.tuple \in 1..Len(tuples)
          /\ LET r == tuples[cbCall.result.tuple]
             IN /\ r.ok = FALSE /\ r.data = Null
                /\ NormalizedBy(r.err, cbCall.t, ev.err)
     /\ (ev.kind = "throw" /\ cbCall.n = 0 /\ cbCall.t # "rethrow") =>
          /\ cbCall.result.state = "resolved"
          /\ cbCall.result.tuple \in 1..Len(tuples)
          /\ LET r == tuples[cbCall.result.tuple]
             IN /\ r.ok = FALSE /\ r.data = Null
                /\ NormalizedBy(r.err, cbCall.t, ev.err)

\* The callback was invoked later, after fn returned, with 0 and an object:
\* the promise resolved to the success tuple of that object.
C9_Witness ==
  /\ cbCall.st = "exited"
  /\ cbCall.last = [kind |-> "callback", err |-> Num(0), res |-> Ref(PlainObj),
                    sync |-> FALSE, pend |-> TRUE]
  /\ cbCall.result.state = "resolved"
  /\ tuples[cbCall.result.tuple].data = Ref(PlainObj)

(***************************************************************************)
(* Properties of map.                                                      *)
(***************************************************************************)

\* C10, as claimed: on a true flag map gives (true, null, fn(payload)) with
\* fn invoked once; on a false flag fn is not invoked and the result is the
\* original tuple itself.
C10_ReturnsOriginal ==
  \A j \in 1..Len(mapCalls) :
    LET m == mapCalls[j]
    IN IF m.before.ok
         THEN /\ m.fnArgs = <<m.before.data>>
              /\ tuples[m.result] =
                   [ok |-> TRUE, err |-> Null, data |-> ApplyMapFn(m.fn, m.before.data)]
         ELSE /\ m.fnArgs = <<>>
              /\ m.result = m.arg

\* C10, amended: on a true flag map gives (true, null, fn(payload)) with fn
\* invoked once, on the payload; on a false flag fn is not invoked and the
\* result is a new tuple (false, err, null) whose error slot is the input's
\* error, the same reference; the input tuple is left as it was.
C10_MapSuccessOnly ==
  \A j \in 1..Len(mapCalls) :
    LET m == mapCalls[j]
    IN /\ m.arg \in 1..Len(tuples) /\ m.result \in 1..Len(tuples)
       /\ tuples[m.arg] = m.before
       /\ m.result # m.arg
       /\ IF m.before.ok
            THEN /\ m.fnArgs = <<m.before.data>>
                 /\ tuples[m.result] =
                      [ok |-> TRUE, err |-> Null,
                       data |-> ApplyMapFn(m.fn, m.before.data)]
            ELSE /\ m.fnArgs = <<>>
                 /\ tuples[m.result] = [ok |-> FALSE, err |-> m.before.err, data |-> Null]

\* map was applied to the failure tuple sync built from a thrown Error: the
\* result carries the same SafeError.
C10_Witness ==
  /\ syncCall.fn = Fails(Ref(ErrBoom))
  /\ syncCall.t = "none"
  /\ Len(mapCalls) = 1
  /\ mapCalls[1].before.ok = FALSE
  /\ tuples[mapCalls[1].result].err = tuples[mapCalls[1].arg].err
  /\ heap[tuples[mapCalls[1].result].err.n].cls = "SafeError"

(***************************************************************************)
(* C11.  or(tuple, D) returns the payload of the tuple, the very value,    *)
(* when the flag of the tuple is true, and D, the very value, when the     *)
(* flag is false; the tuple it was given, and every other tuple, is what   *)
(* it was before the call.                                                 *)
(***************************************************************************)
C11_OrPayloadOrDefault ==
  orCall.st = "returned" =>
    /\ orCall.before.ok => orCall.result = orCall.before.data
    /\ ~orCall.before.ok => orCall.result = orCall.defaultValue
    /\ tuples[orCall.arg] = orCall.before
    /\ \A a \in 1..Len(orCall.tuplesBefore) : tuples[a] = orCall.tuplesBefore[a]

\* or has answered a success whose payload is null with that payload, the
\* default being an object.
C11_Witness ==
  /\ orCall.st = "returned"
  /\ orCall.before.ok
  /\ orCall.before.data = Null
  /\ orCall.defaultValue = Ref(PlainObj)
  /\ orCall.result = Null

\* or has answered a failure with the default, the very object it was given.
C11_WitnessDefault ==
  /\ orCall.st = "returned"
  /\ ~orCall.before.ok
  /\ orCall.defaultValue = Ref(PlainObj)
  /\ orCall.result = Ref(PlainObj)

(***************************************************************************)
(* C12.  Round trip of format and parse.  For a tuple t whose payload is   *)
(* losslessly JSON-encodable, parse(format(t)) returns a tuple with the    *)
(* flag of t.  If t is a success, the error slot of the result is null and *)
(* its payload equals the payload of t (the same primitive, or an object   *)
(* with the same content).  If t is a failure, the data slot of the result *)
(* is null and its error is a SafeError built by parse, after format       *)
(* returned, whose message is the message of the error of t, character for *)
(* character, and whose cause and code are undefined.                      *)
(***************************************************************************)
\* The payloads of the model that JSON represents without loss: null,
\* booleans, integers, strings and the plain object { foo: 'bar' }.
Lossless(h, v) ==
  \/ v.k \in {"null", "boolean", "number", "string"}
  \/ v.k = "object" /\ h[v.n].cls = "Object"

\* Equality of payloads: the same primitive, or objects of equal content.
JsonEqual(h, v, w) ==
  IF IsRef(v) /\ IsRef(w) THEN h[v.n] = h[w.n] ELSE v = w

RoundTripDone == mode = "format" /\ parseCall.st # "idle"

C12_RoundTrip ==
  RoundTripDone =>
    LET t == tuples[formatCall.arg]
    IN /\ (t.ok /\ Lossless(heap, t.data)) =>
            /\ parseCall.st = "returned"
            /\ tuples[parseCall.tuple].ok
            /\ tuples[parseCall.tuple].err = Null
            /\ JsonEqual(heap, tuples[parseCall.tuple].data, t.data)
       /\ ~t.ok =>
            /\ parseCall.st = "returned"
            /\ ~tuples[parseCall.tuple].ok
            /\ tuples[parseCall.tuple].data = Null
            /\ IsRef(tuples[parseCall.tuple].err)
            /\ tuples[parseCall.tuple].err.n > formatCall.heapSize
            /\ heap[tuples[parseCall.tuple].err.n]
                 = NewSafeError(heap[t.err.n].message, Undef, Undef)

\* A failure whose message reads like a formatted success has made the
\* round trip.
C12_Witness ==
  /\ RoundTripDone
  /\ ~tuples[formatCall.arg].ok
  /\ heap[tuples[formatCall.arg].err.n].message = "[OK] data: 1"
  /\ formatCall.text = "[ERR] error: [OK] data: 1"
  /\ parseCall.st = "returned"
  /\ heap[tuples[parseCall.tuple].err.n].message = "[OK] data: 1"

\* A success whose payload is a string with a backslash, a line feed and a
\* tab has made the round trip.
C12_WitnessEscapes ==
  /\ RoundTripDone
  /\ tuples[formatCall.arg] = SuccessResult(Str("a\\b\nc\td"))
  /\ formatCall.text = "[OK] data: \"a\\\\b\\nc\\td\""
  /\ parseCall.st = "returned"
  /\ tuples[parseCall.tuple] = SuccessResult(Str("a\\b\nc\td"))

\* A failure whose error carries a code has made the round trip, and the
\* error of the result carries none.
C12_WitnessCodeDropped ==
  /\ RoundTripDone
  /\ tuples[formatCall.arg].err = Ref(SafeCoded)
  /\ parseCall.st = "returned"
  /\ heap[tuples[parseCall.tuple].err.n].code = Undef

\* A success whose payload is undefined, which JSON does not represent, has
\* been formatted, and parse has thrown on the text.
C12_WitnessNotLossless ==
  /\ RoundTripDone
  /\ tuples[formatCall.arg] = SuccessResult(Undef)
  /\ formatCall.text = "[OK] data: undefined"
  /\ parseCall.st = "threw"

(***************************************************************************)
(* C13.  parse on malformed input.  For a text that starts with neither    *)
(* "[OK] data: " nor "[ERR] error: ", and for a text that starts with      *)
(* "[OK] data: " and goes on with a text that is no JSON, parse throws an  *)
(* Error and returns no tuple.  For a text that starts with                *)
(* "[ERR] error: " parse does not throw: it returns [false, error, null]   *)
(* where error is a SafeError whose message is the rest of the text,       *)
(* character for character.                                                *)
(***************************************************************************)
HasPrefix(str, prefix) == \E n \in 0..Len(str) : SubSeq(str, 1, n) = prefix

Remainder(str, prefix) == SubSeq(str, Len(prefix) + 1, Len(str))

\* The texts of the runs that are no JSON.
NotJson == {"", "undefined", "{bad"}

ParseRaised ==
  /\ parseCall.st = "threw"
  /\ parseCall.tuple = 0
  /\ mode = "parse" => tuples = <<>>
  /\ IsRef(parseCall.thrown)
  /\ heap[parseCall.thrown.n].cls = "Error"

C13_ParseMalformed ==
  parseCall.st # "idle" =>
    LET str == parseCall.str
    IN /\ (~HasPrefix(str, "[OK] data: ") /\ ~HasPrefix(str, "[ERR] error: ")) =>
            ParseRaised
       /\ (HasPrefix(str, "[OK] data: ") /\ Remainder(str, "[OK] data: ") \in NotJson) =>
            ParseRaised
       /\ HasPrefix(str, "[ERR] error: ") =>
            /\ parseCall.st = "returned"
            /\ parseCall.thrown = Undef
            /\ ~tuples[parseCall.tuple].ok
            /\ tuples[parseCall.tuple].data = Null
            /\ IsRef(tuples[parseCall.tuple].err)
            /\ heap[tuples[parseCall.tuple].err.n].cls = "SafeError"
            /\ heap[tuples[parseCall.tuple].err.n].message
                 = Remainder(str, "[ERR] error: ")

\* parse has thrown on a success prefix followed by a text that is no JSON.
C13_Witness ==
  /\ mode = "parse"
  /\ parseCall.str = "[OK] data: {bad"
  /\ parseCall.st = "threw"
  /\ tuples = <<>>

\* parse has thrown on a text with neither prefix: the failure prefix less
\* its last space.
C13_WitnessNoPrefix ==
  /\ mode = "parse"
  /\ parseCall.str = "[ERR] error:"
  /\ parseCall.st = "threw"
  /\ heap[parseCall.thrown.n].message = "Invalid SafeResult format: [ERR] error:"

\* parse has returned a failure for a failure prefix followed by nothing:
\* the message is the empty text.
C13_WitnessEmptyMessage ==
  /\ mode = "parse"
  /\ parseCall.str = "[ERR] error: "
  /\ parseCall.st = "returned"
  /\ heap[tuples[parseCall.tuple].err.n].message = ""

(***************************************************************************)
(* C14.  The promise cb returns is a one-shot latch.  It leaves the        *)
(* pending state at most once, in the step of the event that settles it    *)
(* and with the tuple that step builds (or the exception that step lets    *)
(* through); from then on no step changes its outcome or the tuple it was  *)
(* settled with, whatever event the step is: the callback invoked again,   *)
(* with any arguments, or fn throwing after it has invoked the callback.   *)
(***************************************************************************)
\* The step settles the promise: the event recorded is the one of this step,
\* it found the promise pending, and a tuple resolved is one the step built.
SettlingStep ==
  /\ cbCall'.last.kind \in {"callback", "throw"}
  /\ cbCall'.last.pend
  /\ cbCall'.result.state = "resolved" =>
       /\ cbCall'.result.tuple > Len(tuples)
       /\ cbCall'.result.tuple <= Len(tuples')

\* The step leaves the settled outcome, and the tuple it holds, as they were.
OutcomeKept ==
  /\ cbCall'.result = cbCall.result
  /\ cbCall.result.state = "resolved" =>
       tuples'[cbCall.result.tuple] = tuples[cbCall.result.tuple]

C14_OneShotLatch ==
  [][ /\ (cbCall.result.state = "pending" /\ cbCall'.result.state # "pending")
           => SettlingStep
      /\ cbCall.result.state # "pending" => OutcomeKept ]_vars

\* The promise was resolved with a success by the first invocation of the
\* callback, and the callback has been invoked again, with an error.
C14_Witness ==
  /\ cbCall.n = 2
  /\ cbCall.last.kind = "callback"
  /\ ~cbCall.last.pend
  /\ Truthy(cbCall.last.err)
  /\ cbCall.result.state = "resolved"
  /\ tuples[cbCall.result.tuple].ok
  /\ Len(tuples) = 2

\* The promise was resolved by the callback, invoked from inside fn, and fn
\* has thrown afterwards.
C14_WitnessThrowAfter ==
  /\ cbCall.n = 1
  /\ cbCall.last.kind = "throw"
  /\ ~cbCall.last.pend
  /\ cbCall.result.state = "resolved"
  /\ tuples[cbCall.result.tuple].ok
  /\ Len(tuples) = 2

====
